---------------------------- MODULE Spec2Model ----------------------------
(***************************************************************************)
(* Verification model of the three-js-tunnel scene.                        *)
(*                                                                         *)
(*   Spec       the Scene component: the per-frame animation loop that     *)
(*              moves and recycles the two tunnel sections, and the frame  *)
(*              pipeline of the EffectComposer (src/src/Scene.jsx).        *)
(*                                                                         *)
(* Lengths on the travel axis are whole world units and a frame's delta is *)
(* a whole number of seconds, so that 2 * delta is computed exactly.       *)
(***************************************************************************)
EXTENDS Integers, Sequences, FiniteSets, TLC

VARIABLES
    section1Position,   \* Scene.jsx:20  useRef(0)
    section2Position,   \* Scene.jsx:21  useRef(-30)
    section1Z,          \* section1Ref.current.position.z (the rendered z)
    section2Z,          \* section2Ref.current.position.z
    sectionRefs,        \* section1Ref.current && section2Ref.current
    particleBoxDepth,   \* the "Box Depth (Z)" control, passed as boxDepth
    delta,              \* delta of the frame in progress (0: no frame yet)
    stage,              \* position in the frame pipeline
    passLog,            \* the steps run so far in the frame in progress
    rngState,           \* the hidden state of Math.random()
    props,              \* the props TunnelParticles was last rendered with
    particleData,       \* the memoised { matrices, colors }
    meshMounted,        \* meshRef.current is an InstancedMesh
    instanceMatrix,     \* the mesh's per-instance matrices
    meshCount,          \* the mesh's drawn count
    colorAttribute,     \* the geometry's instanced "color" attribute
    uniforms,           \* the uniforms of the volumetric light shader
    pixel,              \* the pixel the shader last ran for (NoPixel: none)
    spotlight,          \* the Spotlight Controls: position, target, angle
    scatterUniforms,    \* the uniforms of the god rays (radial scatter) shader
    shaderControls,     \* the God Rays Params controls
    scatterLight,       \* whether props.light and props.light.current are set
    scatterLightNdc,    \* worldPos.project(camera) of the light, x and y
    scatterPixel        \* the run of the god rays shader for one pixel

sceneVars == <<section1Position, section2Position, section1Z, section2Z,
               sectionRefs, particleBoxDepth, delta, stage, passLog>>

particleVars == <<rngState, props, particleData, meshMounted, instanceMatrix,
                  meshCount, colorAttribute>>

scatterVars ==
    <<scatterUniforms, shaderControls, scatterLight, scatterLightNdc,
      scatterPixel>>

kernelVars == <<uniforms, pixel, spotlight, scatterVars>>

vars == <<sceneVars, particleVars, kernelVars>>

---------------------------------------------------------------------------
(* Bounds of the model *)

\* the largest frame delta, in seconds
MaxDelta == 3

\* the largest particle count requested of the generator
MaxCount == 2
MaxFrame == 1

\* the delta of the frame after a stall of the animation loop
StallDelta == 10 * MaxDelta

DeltaValues == (1 .. MaxDelta) \cup {StallDelta}

---------------------------------------------------------------------------
(* Scene.jsx: constants of the animation loop and of the controls *)

Speed == 2
ForwardBound == 30
ResetPosition == -30
Section1Initial == 0
Section2Initial == -30
Group1InitialZ == 0
Group2InitialZ == -29
BoxDepthDefault == 33
BoxDepthMin == 5
BoxDepthMax == 100

\* values of the particleBoxDepth control the model tries: both ends of its
\* range, its default, and the value the animation loop is written for
BoxDepthValues == {BoxDepthMin, ForwardBound, BoxDepthDefault, BoxDepthMax}

\* the children of <EffectComposer>, in order
EffectComposerChildren == <<"Bloom", "Noise">>

---------------------------------------------------------------------------
(* The animation loop *)

\* an offset that the frame leaves where it was
Unmoved(position, d) == position

\* an offset after the frame's increment
Advanced(position, d) == position + Speed * d

\* "Reset positions when they go out of view for looping effect"
ResetIfOutOfView(position) ==
    IF position >= ForwardBound THEN ResetPosition ELSE position

\* useFrame((state, delta) => ...): one call of the animation loop
useFrame(d) ==
    /\ stage = "idle"
    /\ delta' = d
    /\ LET p1 == Advanced(section1Position, d)
           p2 == Advanced(section2Position, d)
       IN  IF sectionRefs
           THEN /\ section1Z' = p1
                /\ section2Z' = p2
                /\ section1Position' = ResetIfOutOfView(p1)
                /\ section2Position' = ResetIfOutOfView(p2)
           ELSE /\ section1Position' = p1
                /\ section2Position' = p2
                /\ UNCHANGED <<section1Z, section2Z>>
    /\ stage' = "updated"
    /\ passLog' = <<"advance">>
    /\ UNCHANGED <<sectionRefs, particleBoxDepth>>
    /\ UNCHANGED <<particleVars, kernelVars>>

AnimationLoop == \E d \in DeltaValues : useFrame(d)

\* the composer's render pass: the scene is drawn into the colour+depth buffer
RenderPass ==
    /\ stage = "updated"
    /\ stage' = "rendered"
    /\ passLog' = Append(passLog, "geometry")
    /\ UNCHANGED <<section1Position, section2Position, section1Z, section2Z,
                   sectionRefs, particleBoxDepth, delta>>
    /\ UNCHANGED <<particleVars, kernelVars>>

\* the effects the composer holds, run in the order they are listed
EffectPasses ==
    /\ stage = "rendered"
    /\ stage' = "composed"
    /\ passLog' = passLog \o EffectComposerChildren
    /\ UNCHANGED <<section1Position, section2Position, section1Z, section2Z,
                   sectionRefs, particleBoxDepth, delta>>
    /\ UNCHANGED <<particleVars, kernelVars>>

\* the frame is on screen; the loop waits for the next animation frame
FrameDone ==
    /\ stage = "composed"
    /\ stage' = "idle"
    /\ UNCHANGED <<section1Position, section2Position, section1Z, section2Z,
                   sectionRefs, particleBoxDepth, delta, passLog>>
    /\ UNCHANGED <<particleVars, kernelVars>>

\* the user moves the "Box Depth (Z)" control between two frames
SetParticleBoxDepth ==
    /\ stage = "idle"
    /\ \E v \in BoxDepthValues \ {particleBoxDepth} : particleBoxDepth' = v
    /\ UNCHANGED <<section1Position, section2Position, section1Z, section2Z,
                   sectionRefs, delta, stage, passLog>>
    /\ UNCHANGED <<particleVars, kernelVars>>

SceneInit ==
    /\ section1Position = Section1Initial
    /\ section2Position = Section2Initial
    /\ section1Z = Group1InitialZ
    /\ section2Z = Group2InitialZ
    /\ sectionRefs = TRUE
    /\ particleBoxDepth = BoxDepthDefault
    /\ delta = 0
    /\ stage = "idle"
    /\ passLog = <<>>


---------------------------------------------------------------------------
(* The ambient random source and fixed-point arithmetic                    *)
(*                                                                         *)
(* Math.random() is a generator with hidden state: the model keeps that    *)
(* state in rngState, starts it at any seed, and steps it at every call.   *)
(* A draw is the fraction rng / RngModulus of [0, 1).                      *)

RngModulus == 32
RngMultiplier == 13
RngIncrement == 7

\* the generator's state after one more call of Math.random()
NextRandom(rng) == (RngMultiplier * rng + RngIncrement) % RngModulus

\* the generator's state after n more calls
RECURSIVE AfterDraws(_, _)
AfterDraws(rng, n) == IF n = 0 THEN rng ELSE AfterDraws(NextRandom(rng), n - 1)

\* positions are kept in units of 1 / PosScale of a world unit, fine enough
\* for every draw of a whole-number range to be exact
PosScale == 2 * RngModulus

\* Math.floor(Math.random() * n)
RandomIndex(n, rng) == (n * rng) \div RngModulus

\* THREE.MathUtils.randFloatSpread(range) = range * (0.5 - Math.random())
randFloatSpread(range, rng) == range * (RngModulus - 2 * rng)

\* THREE.MathUtils.randFloat(low, high) = low + Math.random() * (high - low),
\* low and high in position units
randFloat(low, high, rng) == low + (rng * (high - low)) \div RngModulus

\* the largest r with r * r <= n (Newton's iteration from above)
RECURSIVE SqrtFrom(_, _)
SqrtFrom(n, x) ==
    LET y == (x + n \div x) \div 2
    IN  IF y >= x THEN x ELSE SqrtFrom(n, y)

ISqrt(n) == IF n < 2 THEN n ELSE SqrtFrom(n, IF n > 46340 THEN 46340 ELSE n)

Abs(x) == IF x < 0 THEN -x ELSE x

---------------------------------------------------------------------------
(* THREE.Color: getHSL, setHSL, offsetHSL                                  *)
(* Channels, hue, saturation and lightness are in units of 1 / ColorScale. *)

\* a randomness control moves in steps of 0.05: its value is k / 20
RandomnessSteps == 20

ColorScale == 60 * RandomnessSteps

Min2(a, b) == IF a < b THEN a ELSE b
Max2(a, b) == IF a > b THEN a ELSE b
Clamp01(v) == Max2(0, Min2(ColorScale, v))

\* Color.getHSL: <<h, s, l>> of the colour <<r, g, b>>
getHSL(c) ==
    LET mx == Max2(c[1], Max2(c[2], c[3]))
        mn == Min2(c[1], Min2(c[2], c[3]))
        l  == (mx + mn) \div 2
        d  == mx - mn
    IN  IF mx = mn
        THEN <<0, 0, l>>
        ELSE LET sat == IF 2 * l <= ColorScale
                        THEN (d * ColorScale) \div (mx + mn)
                        ELSE (d * ColorScale) \div (2 * ColorScale - mx - mn)
                 hue6 == IF mx = c[1]
                         THEN ((c[2] - c[3]) * ColorScale) \div d
                                  + (IF c[2] < c[3] THEN 6 * ColorScale ELSE 0)
                         ELSE IF mx = c[2]
                         THEN ((c[3] - c[1]) * ColorScale) \div d + 2 * ColorScale
                         ELSE ((c[1] - c[2]) * ColorScale) \div d + 4 * ColorScale
             IN  <<hue6 \div 6, sat, l>>

\* hue2rgb(p, q, t) of three's Color
hue2rgb(pp, q, t0) ==
    LET t1 == IF t0 < 0 THEN t0 + ColorScale ELSE t0
        t  == IF t1 > ColorScale THEN t1 - ColorScale ELSE t1
    IN  IF 6 * t < ColorScale
        THEN pp + ((q - pp) * 6 * t) \div ColorScale
        ELSE IF 2 * t < ColorScale
        THEN q
        ELSE IF 3 * t < 2 * ColorScale
        THEN pp + ((q - pp) * 2 * (2 * ColorScale - 3 * t)) \div ColorScale
        ELSE pp

\* Color.setHSL(h, s, l): the colour <<r, g, b>>
setHSL(h0, s0, l0) ==
    LET h == h0 % ColorScale
        sat == Clamp01(s0)
        l == Clamp01(l0)
    IN  IF sat = 0
        THEN <<l, l, l>>
        ELSE LET pp == IF 2 * l <= ColorScale
                       THEN (l * (ColorScale + sat)) \div ColorScale
                       ELSE l + sat - (l * sat) \div ColorScale
                 q == 2 * l - pp
             IN  << hue2rgb(q, pp, h + ColorScale \div 3),
                    hue2rgb(q, pp, h),
                    hue2rgb(q, pp, h - ColorScale \div 3) >>

\* Color.offsetHSL(h, s, l)
offsetHSL(c, dh, ds, dl) ==
    LET hsl == getHSL(c)
    IN  setHSL(hsl[1] + dh, hsl[2] + ds, hsl[3] + dl)

\* the base colours the model tries: "#000000" (the control's default) and
\* "#ffffff" (the component's default)
Black == <<0, 0, 0>>
White == <<ColorScale, ColorScale, ColorScale>>

---------------------------------------------------------------------------
(* TunnelParticles: the generator of a section's particle batch            *)
(*                                                                         *)
(* A matrix is kept as the position, scale and rotation it is composed     *)
(* from, with the face drawn for the instance beside them.  A scale is in  *)
(* units of 1 / ScaleOne, an angle in units of pi / HalfTurn.              *)

ScaleOne == RandomnessSteps * RngModulus
HalfTurn == RandomnessSteps * RngModulus

\* const halfBoxSize = boxSize / 2; const halfBoxThickness = boxThickness / 2
HalfBoxSize(p) == (p.boxSize * PosScale) \div 2
HalfBoxThickness(p) == (p.boxThickness * PosScale) \div 2

\* the position drawn on the face: x from draw r1, y from draw r2
FaceX(p, face, r1) ==
    IF face = 0 \/ face = 1
    THEN randFloatSpread(p.boxSize, r1)
    ELSE IF face = 2
    THEN -HalfBoxSize(p)
             + randFloat(-HalfBoxThickness(p), HalfBoxThickness(p), r1)
    ELSE HalfBoxSize(p)
             + randFloat(-HalfBoxThickness(p), HalfBoxThickness(p), r1)

\* the out-of-plane draw taken over the whole thickness on either side
FaceYWholeThickness(p, face, r2) ==
    IF face = 0
    THEN HalfBoxSize(p)
             + randFloat(-2 * HalfBoxThickness(p), 2 * HalfBoxThickness(p), r2)
    ELSE IF face = 1
    THEN -HalfBoxSize(p)
             + randFloat(-2 * HalfBoxThickness(p), 2 * HalfBoxThickness(p), r2)
    ELSE randFloatSpread(p.boxSize, r2)

FaceY(p, face, r2) ==
    IF face = 0
    THEN HalfBoxSize(p)
             + randFloat(-HalfBoxThickness(p), HalfBoxThickness(p), r2)
    ELSE IF face = 1
    THEN -HalfBoxSize(p)
             + randFloat(-HalfBoxThickness(p), HalfBoxThickness(p), r2)
    ELSE randFloatSpread(p.boxSize, r2)

\* the scale without the "- sizeRandomness": 1 + Math.random() * 2 * sizeRandomness
ScaleFactorUncentred(sizeRandomness, r) ==
    ScaleOne + 2 * sizeRandomness * r

\* 1 - sizeRandomness + Math.random() * 2 * sizeRandomness
ScaleFactor(sizeRandomness, r) ==
    ScaleOne - sizeRandomness * RngModulus + 2 * sizeRandomness * r

\* the angle without the "- 0.5": base + Math.random() * 2 * randomness * Math.PI
RotationAngleUncentred(base, randomness, r) ==
    base + 2 * r * randomness

\* base + (Math.random() - 0.5) * 2 * randomness * Math.PI
RotationAngle(base, randomness, r) ==
    base + (2 * r - RngModulus) * randomness

\* the colour of an instance: the base colour, offset in hue, saturation and
\* lightness by randomFactor * 0.3 when colorRandomness > 0
InstanceColor(p, r) ==
    IF p.colorRandomness > 0
    THEN LET offset == (18 * (2 * r - RngModulus) * p.colorRandomness)
                           \div RngModulus
         IN  offsetHSL(p.baseColor, offset, offset, offset)
    ELSE p.baseColor

\* the number of calls of Math.random() one iteration of the loop makes
DrawsPerInstance(p) == IF p.colorRandomness > 0 THEN 9 ELSE 8

\* one iteration of the loop, the generator being in state rng
Instance(p, rng) ==
    LET r1 == NextRandom(rng)
        r2 == NextRandom(r1)
        r3 == NextRandom(r2)
        r4 == NextRandom(r3)
        r5 == NextRandom(r4)
        r6 == NextRandom(r5)
        r7 == NextRandom(r6)
        face == RandomIndex(4, rng)
        scaleFactor == ScaleFactor(p.sizeRandomness, r4)
    IN  [ face |-> face,
          position |-> << FaceX(p, face, r1), FaceY(p, face, r2),
                          randFloatSpread(p.boxDepth, r3) >>,
          scale |-> <<scaleFactor, scaleFactor, scaleFactor>>,
          rotation |-> << RotationAngle(p.baseRotationX, p.rotationRandomnessX, r5),
                          RotationAngle(p.baseRotationY, p.rotationRandomnessY, r6),
                          RotationAngle(p.baseRotationZ, p.rotationRandomnessZ, r7) >> ]

\* for (let i = 0; i < count; i++) { ... matrices.push(...); colors.push(r, g, b) }
RECURSIVE ParticleLoop(_, _, _, _, _)
ParticleLoop(p, i, rng, matrices, colors) ==
    IF i >= p.count
    THEN [matrices |-> matrices, colors |-> colors, rng |-> rng]
    ELSE ParticleLoop(p, i + 1, AfterDraws(rng, DrawsPerInstance(p)),
                      Append(matrices, Instance(p, rng)),
                      colors \o InstanceColor(p, AfterDraws(rng, 8)))

\* the batch without the instances a noise field culls: what the generator
\* would return if it used the noise props it is passed
particleDataCulled(p, rng) ==
    LET d == ParticleLoop(p, 0, rng, <<>>, <<>>)
        Kept(i) == \/ ~p.useParticleNoise
                   \/ (d.matrices[i].position[3] % 100) - 50
                          >= p.particleNoiseThreshold
        RECURSIVE Thin(_)
        Thin(i) == IF i = 0 THEN [matrices |-> <<>>, colors |-> <<>>]
                   ELSE LET t == Thin(i - 1)
                        IN  IF Kept(i)
                            THEN [matrices |-> Append(t.matrices, d.matrices[i]),
                                  colors |-> t.colors
                                      \o SubSeq(d.colors, 3 * i - 2, 3 * i)]
                            ELSE t
        thinned == Thin(Len(d.matrices))
    IN  [matrices |-> thinned.matrices, colors |-> thinned.colors, rng |-> d.rng]

\* const particleData = useMemo(() => { ... return { matrices, colors } }, [...])
particleDataMemo(p, rng) == ParticleLoop(p, 0, rng, <<>>, <<>>)

---------------------------------------------------------------------------
(* TunnelParticles: the component                                          *)

\* the props Scene passes, at the controls' defaults.  Lengths are whole
\* world units, a randomness is its number of 0.05 steps, the noise
\* threshold is in hundredths.
DefaultProps ==
    [ count |-> MaxCount,
      boxSize |-> 8,
      boxDepth |-> BoxDepthDefault,
      boxThickness |-> 1,
      visible |-> TRUE,
      baseSize |-> 1,
      sizeRandomness |-> 3,
      baseColor |-> Black,
      colorRandomness |-> 3,
      baseRotationX |-> 0,
      baseRotationY |-> 0,
      baseRotationZ |-> 0,
      rotationRandomnessX |-> 0,
      rotationRandomnessY |-> 0,
      rotationRandomnessZ |-> 0,
      useParticleNoise |-> TRUE,
      particleNoiseScale |-> 20,
      particleNoiseThreshold |-> -10 ]

\* the values of each control the model tries
ControlValues ==
    [ count |-> {0, 1, MaxCount},
      boxSize |-> {2, 8},
      boxThickness |-> {1, 4},
      visible |-> BOOLEAN,
      sizeRandomness |-> {0, 3},
      rotationRandomnessX |-> {0, RandomnessSteps},
      useParticleNoise |-> BOOLEAN ]

\* the dependency list of the particleData memo
ParticleDataDeps ==
    { "count", "boxSize", "boxDepth", "boxThickness", "baseSize",
      "sizeRandomness", "baseColor", "colorRandomness",
      "baseRotationX", "baseRotationY", "baseRotationZ",
      "rotationRandomnessX", "rotationRandomnessY", "rotationRandomnessZ" }

\* the dependency list of the particleGeometry memo
ParticleGeometryDeps == { "baseSize", "count" }

DepsChanged(old, new, deps) == \E f \in deps : old[f] # new[f]

\* what a newly constructed InstancedMesh holds for each of its instances
IdentityMatrix ==
    [ face |-> -1, position |-> <<0, 0, 0>>,
      scale |-> <<ScaleOne, ScaleOne, ScaleOne>>,
      rotation |-> <<0, 0, 0>> ]

NewInstanceMatrix(n) == [i \in 1 .. n |-> IdentityMatrix]

\* new Float32Array(count * 3)
NewColorAttribute(n) == [i \in 1 .. 3 * n |-> 0]

\* the effect's loop of setMatrixAt(i, particleData.matrices[i])
UploadMatrices(buffer, matrices) ==
    [i \in 1 .. Max2(Len(buffer), Len(matrices)) |->
        IF i <= Len(matrices) THEN matrices[i] ELSE buffer[i]]

\* the effect's loop of colorAttribute.setXYZ(i, r, g, b)
UploadColors(buffer, colors) ==
    [i \in 1 .. Max2(Len(buffer), 3 * (Len(colors) \div 3)) |->
        IF i <= 3 * (Len(colors) \div 3) THEN colors[i] ELSE buffer[i]]

\* TunnelParticles rendered with new props: the memos are recomputed when a
\* dependency changed, the mesh is mounted, kept or unmounted, and the
\* effect runs when particleData changed
Render(new) ==
    LET regenerate == DepsChanged(props, new, ParticleDataDeps)
        newGeometry == DepsChanged(props, new, ParticleGeometryDeps)
        attribute == IF newGeometry
                     THEN NewColorAttribute(new.count)
                     ELSE colorAttribute
        newMesh == new.visible /\ (~meshMounted \/ new.count # props.count)
        buffer == IF newMesh THEN NewInstanceMatrix(new.count) ELSE instanceMatrix
        drawn == IF newMesh THEN new.count ELSE meshCount
        effectActs == regenerate /\ new.visible
    IN  \E data \in { IF regenerate
                      THEN particleDataMemo(new, rngState)
                      ELSE [matrices |-> particleData.matrices,
                            colors |-> particleData.colors,
                            rng |-> rngState] } :
            /\ props' = new
            /\ rngState' = data.rng
            /\ particleData' =
                   [matrices |-> data.matrices, colors |-> data.colors]
            /\ meshMounted' = new.visible
            /\ instanceMatrix' =
                   IF ~new.visible THEN <<>>
                   ELSE IF effectActs THEN UploadMatrices(buffer, data.matrices)
                   ELSE buffer
            /\ meshCount' =
                   IF ~new.visible THEN 0
                   ELSE IF effectActs THEN Len(data.matrices)
                   ELSE drawn
            /\ colorAttribute' =
                   IF effectActs THEN UploadColors(attribute, data.colors)
                   ELSE attribute

\* the user moves one of the particle controls
ChangeControl ==
    /\ \E f \in DOMAIN ControlValues :
          \E v \in ControlValues[f] \ {props[f]} :
              Render([props EXCEPT ![f] = v])
    /\ UNCHANGED <<sceneVars, kernelVars>>

\* the controls that decide whether the memos are kept: one the generator
\* reads, the two the geometry depends on, the visibility and one the
\* component does not take
MemoControlValues ==
    [ sizeRandomness |-> {0, 3},
      count |-> {1, MaxCount},
      baseSize |-> {1, 2},
      visible |-> BOOLEAN,
      useParticleNoise |-> BOOLEAN ]

ChangeMemoControl ==
    /\ \E f \in DOMAIN MemoControlValues :
          \E v \in MemoControlValues[f] \ {props[f]} :
              Render([props EXCEPT ![f] = v])
    /\ UNCHANGED <<sceneVars, kernelVars>>

\* the rotation controls, with the count
RotationControlValues ==
    [ count |-> {1, MaxCount},
      baseRotationX |-> {0, HalfTurn \div 2},
      rotationRandomnessX |-> {0, RandomnessSteps},
      rotationRandomnessY |-> {0, RandomnessSteps \div 2},
      rotationRandomnessZ |-> {0, 1} ]

ChangeRotationControl ==
    /\ \E f \in DOMAIN RotationControlValues :
          \E v \in RotationControlValues[f] \ {props[f]} :
              Render([props EXCEPT ![f] = v])
    /\ UNCHANGED <<sceneVars, kernelVars>>

\* the props the body of the particleData memo reads
GeneratorParameters ==
    { "count", "boxSize", "boxDepth", "boxThickness", "sizeRandomness",
      "baseColor", "colorRandomness",
      "baseRotationX", "baseRotationY", "baseRotationZ",
      "rotationRandomnessX", "rotationRandomnessY", "rotationRandomnessZ" }

\* the component after its first render, Math.random() having been in
\* state seed: the batch is generated and the mount effect has uploaded it
TunnelParticlesInit(seed) ==
    LET data == particleDataMemo(DefaultProps, seed)
    IN  /\ props = DefaultProps
        /\ rngState = data.rng
        /\ particleData = [matrices |-> data.matrices, colors |-> data.colors]
        /\ meshMounted = TRUE
        /\ instanceMatrix =
               UploadMatrices(NewInstanceMatrix(DefaultProps.count), data.matrices)
        /\ meshCount = Len(data.matrices)
        /\ colorAttribute =
               UploadColors(NewColorAttribute(DefaultProps.count), data.colors)

---------------------------------------------------------------------------
(* TunnelParticles, the variant that moves each instance along its normal  *)

Sign(x) == IF x < 0 THEN -1 ELSE IF x > 0 THEN 1 ELSE 0

\* Vector3.length()
Length(v) == ISqrt(v[1] * v[1] + v[2] * v[2] + v[3] * v[3])

\* position.clone().normalize(): divideScalar(length() || 1), a unit vector
\* in units of 1 / PosScale
Normalized(v) ==
    LET len == IF Length(v) = 0 THEN PosScale ELSE Length(v)
    IN  [i \in 1 .. 3 |-> Sign(v[i]) * ((Abs(v[i]) * PosScale) \div len)]

\* position.addScaledVector(normal, 1)
AddNormal(v) == [i \in 1 .. 3 |-> v[i] + Normalized(v)[i]]

\* one iteration of the variant's loop: face, the unused sign, the position
\* on the face moved one unit along its normal, a scale in [0.2, 0.5) and
\* three angles in [0, 2 pi)
LegacyInstance(p, rng) ==
    LET r2 == AfterDraws(rng, 2)
        r3 == NextRandom(r2)
        r4 == NextRandom(r3)
        r5 == NextRandom(r4)
        r6 == NextRandom(r5)
        r7 == NextRandom(r6)
        r8 == NextRandom(r7)
        face == RandomIndex(4, rng)
        drawn == << FaceX(p, face, r2), FaceY(p, face, r3),
                    randFloatSpread(p.boxDepth, r4) >>
        scale == randFloat((2 * ScaleOne) \div 10, (5 * ScaleOne) \div 10, r5)
    IN  [ face |-> face,
          position |-> AddNormal(drawn),
          scale |-> <<scale, scale, scale>>,
          rotation |-> << randFloat(0, 2 * HalfTurn, r6),
                          randFloat(0, 2 * HalfTurn, r7),
                          randFloat(0, 2 * HalfTurn, r8) >> ]

RECURSIVE LegacyLoop(_, _, _, _)
LegacyLoop(p, i, rng, matrices) ==
    IF i >= p.count
    THEN [matrices |-> matrices, colors |-> <<>>, rng |-> rng]
    ELSE LegacyLoop(p, i + 1, AfterDraws(rng, 9),
                    Append(matrices, LegacyInstance(p, rng)))

\* const matrices = useMemo(() => { ... }, [count, boxSize, boxDepth, boxThickness])
legacyMatricesMemo(p, rng) == LegacyLoop(p, 0, rng, <<>>)

LegacyDeps == { "count", "boxSize", "boxDepth", "boxThickness" }

\* the variant's own defaults
LegacyDefaultProps ==
    [ DefaultProps EXCEPT !.boxSize = 10, !.boxDepth = 30, !.boxThickness = 2 ]

LegacyControlValues ==
    [ count |-> 0 .. MaxCount,
      boxSize |-> {2, 10},
      boxDepth |-> {30, BoxDepthDefault},
      boxThickness |-> {1, 2} ]

\* the variant rendered with new props: its mesh is always mounted, and its
\* effect uploads the matrices whenever they were regenerated
LegacyRender(new) ==
    LET regenerate == DepsChanged(props, new, LegacyDeps)
        buffer == IF new.count # props.count
                  THEN NewInstanceMatrix(new.count)
                  ELSE instanceMatrix
    IN  \E data \in { IF regenerate
                      THEN legacyMatricesMemo(new, rngState)
                      ELSE [matrices |-> particleData.matrices,
                            colors |-> <<>>,
                            rng |-> rngState] } :
            /\ props' = new
            /\ rngState' = data.rng
            /\ particleData' = [matrices |-> data.matrices, colors |-> <<>>]
            /\ instanceMatrix' =
                   IF regenerate THEN UploadMatrices(buffer, data.matrices)
                   ELSE buffer
            /\ meshCount' = new.count
            /\ UNCHANGED <<meshMounted, colorAttribute>>

LegacyChangeControl ==
    /\ \E f \in DOMAIN LegacyControlValues :
          \E v \in LegacyControlValues[f] \ {props[f]} :
              LegacyRender([props EXCEPT ![f] = v])
    /\ UNCHANGED <<sceneVars, kernelVars>>

LegacyParticlesInit(seed) ==
    LET data == legacyMatricesMemo(LegacyDefaultProps, seed)
    IN  /\ props = LegacyDefaultProps
        /\ rngState = data.rng
        /\ particleData = [matrices |-> data.matrices, colors |-> <<>>]
        /\ meshMounted = TRUE
        /\ instanceMatrix =
               UploadMatrices(NewInstanceMatrix(LegacyDefaultProps.count),
                              data.matrices)
        /\ meshCount = LegacyDefaultProps.count
        /\ colorAttribute = <<>>

---------------------------------------------------------------------------
(* The volumetric light shader (volumetricLight.frag, and the same text in *)
(* the VolumetricLightEffect)                                              *)
(*                                                                         *)
(* World lengths are in units of 1 / LenScale, the components of a unit    *)
(* vector, cosines and texels in units of 1 / UnitScale, a density and a   *)
(* colour channel in units of 1 / DensityScale.                            *)

LenScale == 10 * 10
UnitScale == 10 * 10 * 10
DensityScale == UnitScale * UnitScale * LenScale

NUM_SAMPLES == 100
MAX_DIST == 100
LIGHT_ATTENUATION == 5

\* DENSITY 0.975, in thousandths
DENSITY == 975

\* PerspectiveCamera near = 0.1 (in tenths) and far = 200
CameraNearTenths == 1
CameraFar == 200

\* tan(fov / 2) for the fov control's default of 60 degrees, in thousandths
TanHalfFov == 577

\* a depth sample is a whole number of 1 / DepthScale
DepthScale == 2 * UnitScale

\* a blue-noise sample is a whole number of tenths
BlueScale == 10

Dot(u, v) == u[1] * v[1] + u[2] * v[2] + u[3] * v[3]
Minus(u, v) == <<u[1] - v[1], u[2] - v[2], u[3] - v[3]>>
Negated(v) == <<-v[1], -v[2], -v[3]>>

\* a quotient rounded towards zero, as a float quotient loses its fraction
Quotient(n, d) == Sign(n) * Sign(d) * (Abs(n) \div Abs(d))

\* GLSL normalize(v), a unit vector in units of 1 / UnitScale. The result for
\* the zero vector is undefined: a build gives components that are all NaN
\* or all zero. Either way every comparison `dot(normalize(v), w) > c` with
\* c >= 0 that the shader makes of it is false, which the zero vector stands
\* for here.
normalize(v) ==
    LET len == Length(v)
    IN  IF len = 0 THEN <<0, 0, 0>>
        ELSE <<Quotient(v[1] * UnitScale, len), Quotient(v[2] * UnitScale, len),
               Quotient(v[3] * UnitScale, len)>>

\* the sine of the cone angle taken for its cosine
SinDegrees(angle) ==
    CASE angle = 0 -> 0
      [] angle = 30 -> 500
      [] angle = 40 -> 643
      [] angle = 60 -> 866
      [] angle = 90 -> UnitScale

\* cos(radians(coneAngle)) for the cone angles the model tries
CosDegrees(angle) ==
    CASE angle = 0 -> UnitScale
      [] angle = 30 -> 866
      [] angle = 40 -> 766
      [] angle = 60 -> 500
      [] angle = 90 -> 0

\* new THREE.Uniform(null): no texture bound to the sampler
NullTexture == <<>>

\* a texture lookup, in units of 1 / UnitScale; a sampler with no texture
\* bound reads as 0
Sample(texture, u, v) ==
    IF texture = NullTexture THEN 0 ELSE texture[u][v]

\* float a, b of rayConeIntersect
ConeA(rayDir, coneDir, coneAngle) ==
    Quotient(Dot(rayDir, coneDir), UnitScale)
        - Quotient(CosDegrees(coneAngle) * Length(rayDir), UnitScale)

ConeB(rayOrigin, coneDir, coneAngle) ==
    Quotient(Dot(rayOrigin, coneDir), UnitScale)
        - Quotient(CosDegrees(coneAngle) * Length(rayOrigin), UnitScale)

\* the intersector returning the max-distance sentinel when both a and b are
\* non-negative
rayConeIntersectSentinel(rayOrigin, rayDir, coneOrigin, coneDir, coneAngle) ==
    LET a == ConeA(rayDir, coneDir, coneAngle)
        b == ConeB(Minus(rayOrigin, coneOrigin), coneDir, coneAngle)
    IN  IF a < 0 /\ b > 0 THEN Quotient(b * UnitScale, -a)
        ELSE MAX_DIST * LenScale

\* the intersector returning b / a, the minus sign lost, as the entry distance
rayConeIntersectUnsigned(rayOrigin, rayDir, coneOrigin, coneDir, coneAngle) ==
    LET a == ConeA(rayDir, coneDir, coneAngle)
        b == ConeB(Minus(rayOrigin, coneOrigin), coneDir, coneAngle)
    IN  IF a >= 0 /\ b >= 0 THEN 0
        ELSE IF a < 0 /\ b > 0 THEN Quotient(b * UnitScale, a)
        ELSE MAX_DIST * LenScale

\* float rayConeIntersect(rayOrigin, rayDir, coneOrigin, coneDir, coneAngle)
rayConeIntersect(rayOrigin, rayDir, coneOrigin, coneDir, coneAngle) ==
    LET a == ConeA(rayDir, coneDir, coneAngle)
        b == ConeB(Minus(rayOrigin, coneOrigin), coneDir, coneAngle)
    IN  IF a >= 0 /\ b >= 0 THEN 0
        ELSE IF a < 0 /\ b > 0 THEN Quotient(b * UnitScale, -a)
        ELSE MAX_DIST * LenScale

\* vec3 getWorldPos(uv, depth): the clip-space point (uv * 2 - 1, depth * 2 - 1)
\* through the inverse projection of the perspective camera, the division by
\* w, and the camera's world matrix (a rotation and the camera's position).
\* uv is in halves, depth in units of 1 / DepthScale.
getWorldPos(u, uv, depth) ==
    LET twoFarNear == 2 * CameraFar * CameraNearTenths
        \* w * twoFarNear * DepthScale, for z = depth * 2 - 1 and near in tenths
        w == (10 * CameraFar + CameraNearTenths) * DepthScale
                 - (10 * CameraFar - CameraNearTenths) * (2 * depth - DepthScale)
        away == (twoFarNear * DepthScale * LenScale) \div w
        view == << Quotient(TanHalfFov * (uv[1] - 1) * away, UnitScale),
                   Quotient(TanHalfFov * (uv[2] - 1) * away, UnitScale),
                   -away >>
        rot == u.viewMatrixInverse.rotation
        at == u.viewMatrixInverse.position
    IN  << Dot(rot[1], view) + at[1], Dot(rot[2], view) + at[2],
           Dot(rot[3], view) + at[3] >>

\* the attenuation with its sign turned
lightAttenuationNegated(dist) ==
    -((UnitScale * UnitScale * LenScale)
          \div (LenScale + LIGHT_ATTENUATION * ((dist * dist) \div LenScale)))

\* float lightAttenuation(dist), in units of 1 / (UnitScale * UnitScale)
lightAttenuation(dist) ==
    (UnitScale * UnitScale * LenScale)
        \div (LenScale + LIGHT_ATTENUATION * ((dist * dist) \div LenScale))

\* float noise(pos, frequency): frequency is in hundredths; the texture is a
\* grid of 2 x 2 texels read at fract(pos.xz * frequency)
noise(u, pos, frequency) ==
    LET fx == ((pos[1] * frequency) \div 100) % LenScale
        fz == ((pos[3] * frequency) \div 100) % LenScale
    IN  Sample(u.noiseTexture, 1 + (2 * fx) \div LenScale,
               1 + (2 * fz) \div LenScale)

\* vec3 pos = rayOrigin + rayDir * t
SamplePos(rayOrigin, rayDir, t) ==
    << rayOrigin[1] + Quotient(rayDir[1] * t, UnitScale),
       rayOrigin[2] + Quotient(rayDir[2] * t, UnitScale),
       rayOrigin[3] + Quotient(rayDir[3] * t, UnitScale) >>

\* the body of the march's loop for sample i: what it adds to the density
SampleDensity(u, rayOrigin, rayDir, rayLength, t) ==
    LET pos == SamplePos(rayOrigin, rayDir, t)
        toLightRaw == Minus(u.lightPosition, pos)
        distToLight == Length(toLightRaw)
        toLight == normalize(toLightRaw)
        dotLight == Quotient(Dot(toLight, normalize(Negated(u.lightDirection))),
                             UnitScale)
        coneCosine == CosDegrees(u.coneAngle)
    IN  IF dotLight > coneCosine
        THEN LET n == Quotient(noise(u, pos, 10)
                                   * noise(u, <<2 * pos[1], 2 * pos[2], 2 * pos[3]>>, 5),
                               UnitScale)
                 att == lightAttenuation(distToLight)
                 \* a quotient by 0 when coneCosine is 1: infinity or
                 \* NaN in the shader, recorded by SampleZeroDivisors
                 ratio == IF coneCosine = UnitScale THEN 0
                          ELSE Quotient((dotLight - coneCosine) * UnitScale,
                                        UnitScale - coneCosine)
                 axisWeight == Quotient(ratio * ratio, UnitScale)
                 weighted == Quotient(Quotient(att * axisWeight, UnitScale) * n,
                                      UnitScale)
             IN  Quotient(weighted * DENSITY, 1000 * 10) * (rayLength \div 10)
        ELSE 0

\* the quotients the body of the march's loop evaluates with a zero
\* denominator for the sample at t: the normalisation of a zero-length
\* lightPosition - pos, and the axis weight's quotient by 1.0 - coneCosine
SampleZeroDivisors(u, rayOrigin, rayDir, t) ==
    LET pos == SamplePos(rayOrigin, rayDir, t)
        toLightRaw == Minus(u.lightPosition, pos)
        dotLight == Quotient(Dot(normalize(toLightRaw),
                                 normalize(Negated(u.lightDirection))),
                             UnitScale)
        coneCosine == CosDegrees(u.coneAngle)
    IN  (IF Length(toLightRaw) = 0 THEN {"toLight"} ELSE {})
            \cup (IF Length(u.lightDirection) = 0 THEN {"lightDirection"} ELSE {})
            \cup (IF dotLight > coneCosine /\ coneCosine = UnitScale
                  THEN {"axisWeight"} ELSE {})

\* the samples taken backwards from the random offset
SampleTBackward(rayLength, blueNoise, i) ==
    (rayLength * (blueNoise - BlueScale * i)) \div (BlueScale * NUM_SAMPLES)

\* t = randomOffset + float(i) * stepSize, with stepSize = rayLength / 100
\* and randomOffset = blueNoise * stepSize
SampleT(rayLength, blueNoise, i) ==
    (rayLength * (BlueScale * i + blueNoise)) \div (BlueScale * NUM_SAMPLES)

\* the number of times the body of
\*   for (int i = 0; i < NUM_SAMPLES; i++) { ... if (t > rayLength) break; ... }
\* runs past its break
Iterations(rayLength, blueNoise) ==
    LET breaks(i) == SampleT(rayLength, blueNoise, i) > rayLength
    IN  IF \E i \in 0 .. (NUM_SAMPLES - 1) : breaks(i)
        THEN CHOOSE i \in 0 .. (NUM_SAMPLES - 1) :
                 breaks(i) /\ \A k \in 0 .. (i - 1) : ~breaks(k)
        ELSE NUM_SAMPLES

\* what the samples from .. to add to the density, from <= to
RECURSIVE DensityOf(_, _, _, _, _, _, _)
DensityOf(u, rayOrigin, rayDir, rayLength, blueNoise, from, to) ==
    IF from = to
    THEN SampleDensity(u, rayOrigin, rayDir, rayLength,
                       SampleT(rayLength, blueNoise, from))
    ELSE LET mid == (from + to) \div 2
         IN  DensityOf(u, rayOrigin, rayDir, rayLength, blueNoise, from, mid)
                 + DensityOf(u, rayOrigin, rayDir, rayLength, blueNoise,
                             mid + 1, to)

\* the march: the density its loop accumulates, the number of samples it
\* takes and the largest t among them
March(u, rayOrigin, rayDir, rayLength, blueNoise) ==
    LET n == Iterations(rayLength, blueNoise)
        ts == {SampleT(rayLength, blueNoise, i) : i \in 0 .. (n - 1)}
    IN  [ density |-> IF n = 0 THEN 0
                      ELSE DensityOf(u, rayOrigin, rayDir, rayLength,
                                     blueNoise, 0, n - 1),
          iterations |-> n,
          maxT |-> IF n = 0 THEN 0
                   ELSE CHOOSE t \in ts : \A other \in ts : other <= t,
          zeroDivisors |->
              UNION {SampleZeroDivisors(u, rayOrigin, rayDir, t) : t \in ts} ]

\* void mainImage(inputColor, uv, outputColor): the record of the run for the
\* pixel at uv whose input colour is rgb and whose alpha (depth) is depth
mainImage(u, rgb, depth, uv) ==
    LET worldPos == getWorldPos(u, uv, depth)
        rayOrigin == u.cameraPosition
        toPoint == Minus(worldPos, rayOrigin)
        rayDir == normalize(toPoint)
        rayLength == Length(toPoint)
        coneDir == normalize(u.lightDirection)
        intersect == rayConeIntersect(rayOrigin, rayDir, u.lightPosition,
                                      coneDir, u.coneAngle)
        marches == intersect > 0 /\ intersect < rayLength
        \* texture2D(blueNoiseTexture, fract(vUv + vec2(uFrame * 0.001))).r,
        \* the texture a grid of 2 x 2 texels, the sample in tenths
        blueNoiseUV == [i \in 1 .. 2 |->
                           ((uv[i] * (UnitScale \div 2) + u.uFrame) % UnitScale)]
        blueNoise == Quotient(
                         Sample(u.blueNoiseTexture,
                                1 + (2 * blueNoiseUV[1]) \div UnitScale,
                                1 + (2 * blueNoiseUV[2]) \div UnitScale)
                             * BlueScale,
                         UnitScale)
        march == IF marches
                 THEN March(u, rayOrigin, rayDir, rayLength, blueNoise)
                 ELSE [density |-> 0, iterations |-> 0, maxT |-> 0,
                       zeroDivisors |-> {}]
        a == ConeA(rayDir, coneDir, u.coneAngle)
        b == ConeB(Minus(rayOrigin, u.lightPosition), coneDir, u.coneAngle)
    IN  [ shaded |-> TRUE,
          uv |-> uv,
          inputColor |-> rgb,
          depth |-> depth,
          worldPos |-> worldPos,
          rayDir |-> rayDir,
          rayLength |-> rayLength,
          a |-> a,
          b |-> b,
          intersect |-> intersect,
          marched |-> marches,
          blueNoise |-> IF marches THEN blueNoise ELSE 0,
          iterations |-> march.iterations,
          maxT |-> march.maxT,
          density |-> march.density,
          \* the quotients evaluated with a zero denominator: the
          \* normalisations of main, the intersector's -b / a (evaluated when
          \* a < 0 and b > 0) and those of the march
          zeroDivisors |->
              (IF rayLength = 0 THEN {"rayDir"} ELSE {})
                  \cup (IF Length(u.lightDirection) = 0
                        THEN {"coneDir"} ELSE {})
                  \cup (IF a < 0 /\ b > 0 /\ -a = 0
                        THEN {"intersect"} ELSE {})
                  \cup march.zeroDivisors,
          outputColor |-> [i \in 1 .. 3 |-> rgb[i] + march.density],
          outputAlpha |-> depth ]

\* no pixel shaded yet in this frame
NoPixel ==
    [ shaded |-> FALSE, uv |-> <<1, 1>>, inputColor |-> <<0, 0, 0>>,
      depth |-> 0, worldPos |-> <<0, 0, 0>>, rayDir |-> <<0, 0, 0>>,
      rayLength |-> 0, a |-> 0,
      b |-> 0, intersect |-> 0, marched |-> FALSE, blueNoise |-> 0,
      iterations |-> 0,
      maxT |-> 0, density |-> 0, zeroDivisors |-> {},
      outputColor |-> <<0, 0, 0>>,
      outputAlpha |-> 0 ]

\* camera.matrixWorld of a camera that looks down -z, down +z and down +x
LookingBack == <<<<1, 0, 0>>, <<0, 1, 0>>, <<0, 0, 1>>>>
LookingForward == <<<<-1, 0, 0>>, <<0, 1, 0>>, <<0, 0, -1>>>>
LookingRight == <<<<0, 0, -1>>, <<0, 1, 0>>, <<1, 0, 0>>>>

\* positions the camera controls allow (each coordinate within -50 .. 50)
\* from which lookAt(0, 0.3, 0) is a rotation about the y axis
Cameras ==
    { [position |-> <<0, 30, 50 * LenScale>>, rotation |-> LookingBack],
      [position |-> <<0, 30, -9 * LenScale>>, rotation |-> LookingForward],
      [position |-> <<-50 * LenScale, 30, 0>>, rotation |-> LookingRight] }

\* lightPos (-7, 12, 3) and the normalized lightTarget - lightPos of the
\* effect's useFrame
HardCodedLight ==
    [ position |-> <<-7 * LenScale, 12 * LenScale, 3 * LenScale>>,
      direction |-> <<616, -704, 352>> ]

\* the light uniforms the shader is tried with: the hard-coded ones, the
\* constructor's, a light above the axis shining down, and a light behind and
\* a light ahead of the first camera, both shining along its view
Lights ==
    { HardCodedLight,
      [position |-> <<LenScale, LenScale, LenScale>>,
       direction |-> <<0, 0, UnitScale>>],
      [position |-> <<0, 5 * LenScale, 0>>, direction |-> <<0, -UnitScale, 0>>],
      [position |-> <<0, 30, 60 * LenScale>>,
       direction |-> <<0, 0, -UnitScale>>],
      [position |-> <<0, 30, 40 * LenScale>>,
       direction |-> <<0, 0, -UnitScale>>] }

ConeAngles == {0, 40, 90}

\* what createNoiseTexture can draw, as 2 x 2 texels
NoiseImages ==
    { <<<<UnitScale, UnitScale>>, <<UnitScale, UnitScale>>>>,
      <<<<UnitScale, 500>>, <<0, UnitScale>>>> }

\* the pixels the shader is run for: uv in halves, the alpha of the input
\* buffer (read as depth) in units of 1 / DepthScale, the input colour
PixelUVs == {<<1, 1>>, <<0, 0>>, <<2, 1>>}
PixelDepths == {0, DepthScale \div 2, DepthScale}
PixelColors == {<<0, 0, 0>>, <<DensityScale \div 2, DensityScale \div 4, 0>>}

\* the uniforms the constructor of VolumetricLightEffect sets, with the
\* camera uniforms and the light uniforms given
Uniforms(camera, light, angle) ==
    [ viewMatrixInverse |-> camera,
      cameraPosition |-> camera.position,
      lightPosition |-> light.position,
      lightDirection |-> light.direction,
      coneAngle |-> angle,
      blueNoiseTexture |-> NullTexture,
      noiseTexture |-> NullTexture,
      uFrame |-> 0 ]

ConstructorUniforms ==
    Uniforms([position |-> <<0, 0, 0>>, rotation |-> LookingBack],
             [position |-> <<LenScale, LenScale, LenScale>>,
              direction |-> <<0, 0, UnitScale>>], 40)

\* an onload that binds its image to both samplers
OnloadSetsBothTextures ==
    /\ uniforms.blueNoiseTexture = NullTexture
    /\ \E image \in NoiseImages :
           uniforms' = [uniforms EXCEPT !.blueNoiseTexture = image,
                                        !.noiseTexture = image]
    /\ pixel' = NoPixel
    /\ UNCHANGED <<sceneVars, particleVars, spotlight, scatterVars>>

\* this.blueNoiseImg.onload
blueNoiseImgOnload ==
    /\ uniforms.blueNoiseTexture = NullTexture
    /\ \E image \in NoiseImages :
           uniforms' = [uniforms EXCEPT !.blueNoiseTexture = image]
    /\ pixel' = NoPixel
    /\ UNCHANGED <<sceneVars, particleVars, spotlight, scatterVars>>

\* this.noiseImg.onload
noiseImgOnload ==
    /\ uniforms.noiseTexture = NullTexture
    /\ \E image \in NoiseImages :
           uniforms' = [uniforms EXCEPT !.noiseTexture = image]
    /\ pixel' = NoPixel
    /\ UNCHANGED <<sceneVars, particleVars, spotlight, scatterVars>>

\* update(renderer, inputBuffer, deltaTime), once per frame
update ==
    /\ uniforms.uFrame < MaxFrame
    /\ uniforms' = [uniforms EXCEPT !.uFrame = @ + 1]
    /\ pixel' = NoPixel
    /\ UNCHANGED <<sceneVars, particleVars, spotlight, scatterVars>>

\* the useFrame of VolumetricLightShader
VolumetricUseFrame ==
    /\ \E camera \in Cameras :
           uniforms' = [uniforms EXCEPT
                            !.viewMatrixInverse = camera,
                            !.cameraPosition = camera.position,
                            !.lightDirection = HardCodedLight.direction,
                            !.lightPosition = HardCodedLight.position]
    /\ pixel' = NoPixel
    /\ UNCHANGED <<sceneVars, particleVars, spotlight, scatterVars>>

\* the fragment shader runs for one pixel of the frame
ShadePixel ==
    /\ ~pixel.shaded
    /\ \E uv \in PixelUVs, depth \in PixelDepths, rgb \in PixelColors :
           pixel' = mainImage(uniforms, rgb, depth, uv)
    /\ UNCHANGED <<uniforms, spotlight, scatterVars, sceneVars, particleVars>>

\* the defaults of the Spotlight Controls: lightX, lightY, lightZ, targetX,
\* targetY, targetZ, and the angle (0.7 radians) in whole degrees
SpotlightDefault ==
    [ position |-> <<-350, 1550, 600>>,
      target |-> <<-100, -200, 350>>,
      angle |-> 40 ]

\* values the Spotlight Controls can be set to (positions within -50 .. 50 in
\* steps of 0.5, the angle within 0 .. pi / 2)
SpotlightValues ==
    [ position : {SpotlightDefault.position, <<-700, 1200, 300>>},
      target : {SpotlightDefault.target, <<0, 400, 700>>},
      angle : {0, 40, 90} ]

\* a Spotlight Control is moved
SetSpotlight ==
    /\ \E value \in SpotlightValues :
           /\ value # spotlight
           /\ spotlight' = value
    /\ UNCHANGED <<uniforms, pixel, scatterVars, sceneVars, particleVars>>

---------------------------------------------------------------------------
(* The god rays shader (the radial scatter effect) and its controls.  An   *)
(* exposure, decay, density or weight is in hundredths.                    *)

MAX_SAMPLES == 120

\* the uniforms the constructor of the god rays effect sets; lightPosition
\* is in halves of the screen
ScatterConstructorUniforms ==
    [ fExposure |-> 60, fDecay |-> 92, fDensity |-> 50, fWeight |-> 30,
      lightPosition |-> <<0, 0>>, uSamples |-> 100, uBlur |-> FALSE ]

\* the defaults of the God Rays Params controls
ShaderControlsDefault ==
    [ exposure |-> 60, decay |-> 90, density |-> 60, weight |-> 20,
      samples |-> 120, blur |-> FALSE ]

\* values the God Rays Params controls can be set to: exposure and density
\* within 0 .. 2, decay and weight within 0 .. 1, samples within 10 .. 120 in
\* steps of 1
ShaderControlValues ==
    [ exposure |-> {60, 200},
      decay |-> {0, 90, 100},
      density |-> {60, 200},
      weight |-> {20, 100},
      samples |-> {10, MAX_SAMPLES},
      blur |-> BOOLEAN ]

\* where worldPos.project(camera) can put the light, in whole units of
\* normalized device coordinates: the centre of the screen, its lower right
\* corner, and a point beyond its right edge
LightNdcValues == {<<0, 0>>, <<1, -1>>, <<2, 0>>}

\* the projected position taken for a UV coordinate as it is
NdcAsUV(ndc) == ndc

\* screenPos.x = (screenPos.x + 1.0) * 0.5, and y alike: uv space, in halves
ToUV(ndc) == <<ndc[1] + 1, ndc[2] + 1>>

\* a God Rays Params control is moved
SetShaderControl ==
    /\ \E f \in DOMAIN ShaderControlValues :
          \E v \in ShaderControlValues[f] \ {shaderControls[f]} :
              shaderControls' = [shaderControls EXCEPT ![f] = v]
    /\ UNCHANGED <<scatterUniforms, scatterLight, scatterLightNdc,
                   scatterPixel, uniforms, pixel, spotlight, sceneVars,
                   particleVars>>

\* the light or the camera moves: the light projects to another point
MoveLight ==
    /\ \E ndc \in LightNdcValues \ {scatterLightNdc} : scatterLightNdc' = ndc
    /\ UNCHANGED <<scatterUniforms, shaderControls, scatterLight,
                   scatterPixel, uniforms, pixel, spotlight, sceneVars,
                   particleVars>>

\* no pixel shaded yet in this frame
NoScatterPixel ==
    [ stage |-> "idle", uv |-> <<1, 1>>, tInput |-> <<>>,
      deltaTexCoord |-> <<0, 0>>, i |-> 0, texCoord |-> <<0, 0>>,
      illuminationDecay |-> 0, FragColor |-> 0, outputColor |-> 0 ]

\* the useFrame of the god rays effect, run in front of a frame's render:
\* the uniforms follow the controls when the light prop is set, and are left
\* alone when it is not
ScatterUseFrame ==
    /\ scatterPixel.stage # "loop"
    /\ IF scatterLight
       THEN scatterUniforms' =
                [ lightPosition |-> ToUV(scatterLightNdc),
                  fExposure |-> shaderControls.exposure,
                  fDecay |-> shaderControls.decay,
                  fDensity |-> shaderControls.density,
                  fWeight |-> shaderControls.weight,
                  uSamples |-> shaderControls.samples,
                  uBlur |-> shaderControls.blur ]
       ELSE UNCHANGED scatterUniforms
    /\ scatterPixel' = NoScatterPixel
    /\ UNCHANGED <<shaderControls, scatterLight, scatterLightNdc, uniforms,
                   pixel, spotlight, sceneVars, particleVars>>

\* the light the light prop refers to is mounted: its ref, null until then,
\* is set
AttachLight ==
    /\ ~scatterLight
    /\ scatterLight' = TRUE
    /\ UNCHANGED <<scatterUniforms, shaderControls, scatterLightNdc,
                   scatterPixel, uniforms, pixel, spotlight, sceneVars,
                   particleVars>>

\* a texture coordinate is a whole number of 1 / TexScale, an
\* illuminationDecay a whole number of 1 / DecayScale
TexScale == UnitScale * UnitScale
DecayScale == UnitScale * UnitScale

\* the input buffer as a grid of 2 x 2 texels, each in units of 1 / UnitScale
\* (the four channels of a texel go through the same arithmetic; one is kept)
InputImages ==
    { <<<<UnitScale, UnitScale>>, <<UnitScale, UnitScale>>>>,
      <<<<UnitScale, 0>>, <<250, 600>>>>,
      <<<<0, 0>>, <<0, 0>>>> }

\* vec2(texelSize.x, 0.0) and vec2(0.0, texelSize.y): one texel of the grid
texelSize == TexScale \div 2

\* the texel of the grid a coordinate falls in, clamped to the edge
Texel(coord) ==
    IF coord < 0 THEN 1
    ELSE IF coord >= TexScale THEN 2
    ELSE 1 + (2 * coord) \div TexScale

\* texture2D(tInput, texCoord)
texture2D(tInput, texCoord) == tInput[Texel(texCoord[1])][Texel(texCoord[2])]

\* the 5-tap blur of the sample at texCoord
BlurredSample(tInput, texCoord) ==
    Quotient(
        400 * texture2D(tInput, texCoord)
            + 150 * texture2D(tInput, <<texCoord[1] + texelSize, texCoord[2]>>)
            + 150 * texture2D(tInput, <<texCoord[1] - texelSize, texCoord[2]>>)
            + 150 * texture2D(tInput, <<texCoord[1], texCoord[2] + texelSize>>)
            + 150 * texture2D(tInput, <<texCoord[1], texCoord[2] - texelSize>>),
        UnitScale)

\* currentSampleColor before the weight and the decay are applied
CurrentSample(u, tInput, texCoord) ==
    IF u.uBlur THEN BlurredSample(tInput, texCoord)
    ELSE texture2D(tInput, texCoord)

\* vec2 deltaTexCoord = (texCoord - lightPosition);
\* deltaTexCoord *= 1.0 / float(uSamples) * fDensity;
\* (a uSamples of 0 makes the factor infinite; every component is then taken
\* as 0)
DeltaTexCoord(u, uv) ==
    [ k \in 1 .. 2 |->
        IF u.uSamples = 0 THEN 0
        ELSE Quotient(((uv[k] - u.lightPosition[k]) * (TexScale \div 2))
                          * u.fDensity,
                      100 * u.uSamples) ]

\* the body of the loop with the sample divided by fWeight (taken as 1 when
\* it is 0), not multiplied by it
DividedByWeight(u, tInput, deltaTexCoord, loop) ==
    LET texCoord == << loop.texCoord[1] - deltaTexCoord[1],
                       loop.texCoord[2] - deltaTexCoord[2] >>
        currentSampleColor ==
            Quotient(Quotient(CurrentSample(u, tInput, texCoord)
                                  * loop.illuminationDecay, UnitScale) * 100,
                     Max2(u.fWeight, 1))
    IN  [ texCoord |-> texCoord,
          illuminationDecay |-> Quotient(loop.illuminationDecay * u.fDecay, 100),
          FragColor |-> loop.FragColor + currentSampleColor ]

\* the body of the loop with illuminationDecay *= fDecay moved in front of
\* the weighting of the sample
DecayedFirst(u, tInput, deltaTexCoord, loop) ==
    LET texCoord == << loop.texCoord[1] - deltaTexCoord[1],
                       loop.texCoord[2] - deltaTexCoord[2] >>
        illuminationDecay == Quotient(loop.illuminationDecay * u.fDecay, 100)
        currentSampleColor ==
            Quotient(Quotient(CurrentSample(u, tInput, texCoord)
                                  * illuminationDecay, UnitScale) * u.fWeight,
                     100)
    IN  [ texCoord |-> texCoord,
          illuminationDecay |-> illuminationDecay,
          FragColor |-> loop.FragColor + currentSampleColor ]

\* the body of the loop: from the loop's variables before an iteration to
\* those after it
LoopBody(u, tInput, deltaTexCoord, loop) ==
    LET texCoord == << loop.texCoord[1] - deltaTexCoord[1],
                       loop.texCoord[2] - deltaTexCoord[2] >>
        currentSampleColor ==
            Quotient(Quotient(CurrentSample(u, tInput, texCoord)
                                  * loop.illuminationDecay, UnitScale)
                         * u.fWeight,
                     100)
    IN  [ texCoord |-> texCoord,
          illuminationDecay |-> Quotient(loop.illuminationDecay * u.fDecay, 100),
          FragColor |-> loop.FragColor + currentSampleColor ]

\* for (int i = 0; i < min(uSamples, MAX_SAMPLES); i++): the iteration count
ScatterIterations(u) == Max2(0, Min2(u.uSamples, MAX_SAMPLES))

\* the pixels the god rays shader is run for, in halves of the screen
ScatterUVs == {<<1, 1>>, <<0, 0>>, <<2, 1>>}

\* void mainImage(inputColor, uv, outputColor) of the god rays shader is
\* entered for the pixel at uv over the buffer tInput: the statements in
\* front of its loop
ScatterMainImage ==
    /\ scatterPixel.stage = "idle"
    /\ \E tInput \in InputImages, uv \in ScatterUVs :
           scatterPixel' =
               [ stage |-> "loop",
                 uv |-> uv,
                 tInput |-> tInput,
                 deltaTexCoord |-> DeltaTexCoord(scatterUniforms, uv),
                 i |-> 0,
                 texCoord |-> << uv[1] * (TexScale \div 2),
                                 uv[2] * (TexScale \div 2) >>,
                 illuminationDecay |-> DecayScale,
                 FragColor |-> 0,
                 outputColor |-> 0 ]
    /\ UNCHANGED <<scatterUniforms, shaderControls, scatterLight,
                   scatterLightNdc, uniforms, pixel, spotlight, sceneVars,
                   particleVars>>

\* one iteration of for (int i = 0; i < min(uSamples, MAX_SAMPLES); i++)
ScatterLoop ==
    /\ scatterPixel.stage = "loop"
    /\ scatterPixel.i < ScatterIterations(scatterUniforms)
    /\ LET after == LoopBody(scatterUniforms, scatterPixel.tInput,
                             scatterPixel.deltaTexCoord,
                             [ texCoord |-> scatterPixel.texCoord,
                               illuminationDecay |->
                                   scatterPixel.illuminationDecay,
                               FragColor |-> scatterPixel.FragColor ])
       IN  scatterPixel' =
               [scatterPixel EXCEPT
                   !.i = @ + 1,
                   !.texCoord = after.texCoord,
                   !.illuminationDecay = after.illuminationDecay,
                   !.FragColor = after.FragColor]
    /\ UNCHANGED <<scatterUniforms, shaderControls, scatterLight,
                   scatterLightNdc, uniforms, pixel, spotlight, sceneVars,
                   particleVars>>

\* the loop is left: FragColor *= fExposure; outputColor = FragColor
ScatterOutput ==
    /\ scatterPixel.stage = "loop"
    /\ scatterPixel.i >= ScatterIterations(scatterUniforms)
    /\ scatterPixel' =
           [scatterPixel EXCEPT
               !.stage = "done",
               !.outputColor =
                   Quotient(scatterPixel.FragColor, 100)
                       * scatterUniforms.fExposure]
    /\ UNCHANGED <<scatterUniforms, shaderControls, scatterLight,
                   scatterLightNdc, uniforms, pixel, spotlight, sceneVars,
                   particleVars>>

ScatterInit ==
    /\ scatterUniforms = ScatterConstructorUniforms
    /\ shaderControls = ShaderControlsDefault
    /\ scatterLight = FALSE
    /\ scatterLightNdc = <<0, 0>>
    /\ scatterPixel = NoScatterPixel

KernelInit ==
    /\ uniforms = ConstructorUniforms
    /\ pixel = NoPixel
    /\ spotlight = SpotlightDefault
    /\ ScatterInit

---------------------------------------------------------------------------
(* The specifications *)

\* Spec follows the Scene's animation loop and frame pipeline; the particle
\* batch of a section is generated once (Math.random() started in state 0)
\* and is followed further in SpecParticles.
Init == SceneInit /\ TunnelParticlesInit(0) /\ KernelInit

Next ==
    \/ AnimationLoop
    \/ RenderPass
    \/ EffectPasses
    \/ FrameDone
    \/ SetParticleBoxDepth

Spec == Init /\ [][Next]_vars

\* SpecFrames is Spec with frames that keep arriving: the animation loop is
\* called again for every animation frame, and a frame that was begun is
\* rendered, composed and put on screen.
SpecFrames ==
    /\ Spec
    /\ WF_vars(AnimationLoop)
    /\ WF_vars(RenderPass)
    /\ WF_vars(EffectPasses)
    /\ WF_vars(FrameDone)

\* SpecParticles follows one TunnelParticles component through changes of
\* its controls, Math.random() starting in any state.
InitParticles ==
    /\ SceneInit
    /\ \E seed \in 0 .. (RngModulus - 1) : TunnelParticlesInit(seed)
    /\ KernelInit

NextParticles == ChangeControl

SpecParticles == InitParticles /\ [][NextParticles]_vars

\* SpecMemo follows one TunnelParticles component through changes of the
\* controls that decide whether its memos are kept.
NextMemo == ChangeMemoControl

SpecMemo == InitParticles /\ [][NextMemo]_vars

\* SpecRotation follows one TunnelParticles component through changes of
\* its rotation controls.
NextRotation == ChangeRotationControl

SpecRotation == InitParticles /\ [][NextRotation]_vars

\* SpecLegacyParticles follows the variant of TunnelParticles that moves each
\* instance along its normal.
InitLegacyParticles ==
    /\ SceneInit
    /\ \E seed \in 0 .. (RngModulus - 1) : LegacyParticlesInit(seed)
    /\ KernelInit

NextLegacyParticles == LegacyChangeControl

SpecLegacyParticles == InitLegacyParticles /\ [][NextLegacyParticles]_vars

\* SpecKernel follows the volumetric light shader: its uniforms start at any
\* camera, light and cone angle, and the shader runs for pixels of each frame.
InitKernel ==
    /\ SceneInit
    /\ TunnelParticlesInit(0)
    /\ \E camera \in Cameras, light \in Lights, angle \in ConeAngles :
           uniforms = Uniforms(camera, light, angle)
    /\ pixel = NoPixel
    /\ spotlight = SpotlightDefault
    /\ ScatterInit

NextKernel ==
    \/ blueNoiseImgOnload
    \/ noiseImgOnload
    \/ update
    \/ VolumetricUseFrame
    \/ ShadePixel

SpecKernel == InitKernel /\ [][NextKernel]_vars

\* SpecTuning follows the light uniforms of the effect while the Spotlight
\* Controls are moved and frames are produced.
NextTuning ==
    \/ SetSpotlight
    \/ VolumetricUseFrame
    \/ update

SpecTuning == InitKernel /\ [][NextTuning]_vars

\* SpecConfiguration follows what the controls hand to the two shaders: the
\* Spotlight Controls, the God Rays Params and the frame updates of the god
\* rays effect.
InitConfiguration == SceneInit /\ TunnelParticlesInit(0) /\ KernelInit

NextConfiguration ==
    \/ SetSpotlight
    \/ SetShaderControl
    \/ AttachLight
    \/ ScatterUseFrame

SpecConfiguration == InitConfiguration /\ [][NextConfiguration]_vars

\* the uniforms of the god rays effect after its constructor and after a
\* frame update, for every setting of the controls and place of the light
ScatterUniformValues ==
    {ScatterConstructorUniforms}
        \cup { [ lightPosition |-> ToUV(ndc),
                 fExposure |-> exposure, fDecay |-> decay,
                 fDensity |-> density, fWeight |-> weight,
                 uSamples |-> samples, uBlur |-> blur ] :
               ndc \in LightNdcValues,
               exposure \in ShaderControlValues.exposure,
               decay \in ShaderControlValues.decay,
               density \in ShaderControlValues.density,
               weight \in ShaderControlValues.weight,
               samples \in ShaderControlValues.samples,
               blur \in ShaderControlValues.blur }

\* SpecScatter runs the god rays shader for single pixels, its uniforms as
\* a frame update left them, and follows further frame updates.
InitScatter ==
    /\ SceneInit
    /\ TunnelParticlesInit(0)
    /\ uniforms = ConstructorUniforms
    /\ pixel = NoPixel
    /\ spotlight = SpotlightDefault
    /\ scatterUniforms \in ScatterUniformValues
    /\ shaderControls = ShaderControlsDefault
    /\ scatterLight = TRUE
    /\ scatterLightNdc = <<0, 0>>
    /\ scatterPixel = NoScatterPixel

NextScatter ==
    \/ ScatterMainImage
    \/ ScatterLoop
    \/ ScatterOutput
    \/ ScatterUseFrame

SpecScatter == InitScatter /\ [][NextScatter]_vars

\* SpecScatterFrame follows the controls, the light and the frame updates of
\* the god rays effect.
NextScatterFrame ==
    \/ SetShaderControl
    \/ MoveLight
    \/ AttachLight
    \/ ScatterUseFrame

SpecScatterFrame == InitConfiguration /\ [][NextScatterFrame]_vars

---------------------------------------------------------------------------
(* Claims about the tunnel recycler and the frame pipeline *)

\* C1: from the initial offsets on, after any number of frames, the two
\* section offsets differ by exactly boxDepth modulo the wraparound period
\* 2 * boxDepth.
C1_OffsetsOneBoxDepthApart ==
    (section1Position - section2Position) % (2 * particleBoxDepth)
        = particleBoxDepth

\* C2: at the end of every call of the animation loop each section offset
\* lies in [-boxDepth, boxDepth), for every value of the boxDepth control.
C2_OffsetsWithinBoxDepth ==
    stage = "updated" =>
        \A p \in {section1Position, section2Position} :
            -particleBoxDepth <= p /\ p < particleBoxDepth

\* twice the ends of the interval a section drawn at z covers
TwiceLow(z) == 2 * z - particleBoxDepth
TwiceHigh(z) == 2 * z + particleBoxDepth

\* C3: at every rendered frame the intervals
\* [z - boxDepth/2, z + boxDepth/2] of the two sections are adjacent: one
\* ends where the other begins, with no gap and no overlap.
C3_SectionsAdjacent ==
    stage = "rendered" =>
        \/ TwiceHigh(section1Z) = TwiceLow(section2Z)
        \/ TwiceHigh(section2Z) = TwiceLow(section1Z)

\* the reset the specification describes: the overshoot is kept
WrappedKeepingOvershoot(position) ==
    IF position >= ForwardBound
    THEN position - 2 * particleBoxDepth
    ELSE position

\* C4: each call of the animation loop adds speed * delta to both offsets
\* and then resets an offset that reached the forward bound by subtracting
\* 2 * boxDepth from it, which keeps the overshoot.
C4_WrapKeepsOvershoot ==
    [][\A d \in DeltaValues :
          useFrame(d) =>
              /\ section1Position' =
                     WrappedKeepingOvershoot(section1Position + Speed * d)
              /\ section2Position' =
                     WrappedKeepingOvershoot(section2Position + Speed * d)]_vars

\* the index of the first occurrence of step s in the log (0: absent)
IndexOf(log, s) ==
    IF \E i \in 1 .. Len(log) : log[i] = s
    THEN CHOOSE i \in 1 .. Len(log) :
             log[i] = s /\ \A j \in 1 .. (i - 1) : log[j] # s
    ELSE 0

\* C5: in every rendered frame the steps run in the order advance, geometry
\* pass, volumetric light kernel, bloom/grain compositor: the kernel runs,
\* strictly after the geometry pass and strictly before the compositor.
C5_KernelRunsBetweenGeometryAndCompositor ==
    stage = "composed" =>
        LET a == IndexOf(passLog, "advance")
            g == IndexOf(passLog, "geometry")
            k == IndexOf(passLog, "VolumetricLight")
            b == IndexOf(passLog, "Bloom")
            n == IndexOf(passLog, "Noise")
        IN  /\ 0 < a /\ a < g
            /\ g < k
            /\ k < b /\ k < n

---------------------------------------------------------------------------
(* Claims about the particle field generator *)

\* C6: for every requested count N >= 0, whatever the noise-culling props
\* are, the generator returns exactly N transforms and 3 * N colour
\* components, and the mounted mesh draws N instances.
C6_GeneratorReturnsRequestedCount ==
    /\ Len(particleData.matrices) = props.count
    /\ Len(particleData.colors) = 3 * props.count
    /\ meshMounted => meshCount = props.count

\* a batch of two instances regenerated for another box size while
\* "Use Noise" is on and the mesh is mounted
C6_Witness ==
    /\ props.useParticleNoise
    /\ props.boxSize # DefaultProps.boxSize
    /\ props.count = 2
    /\ meshMounted
    /\ Len(particleData.matrices) = 2
    /\ Len(particleData.colors) = 6
    /\ meshCount = 2

\* the distance of the instance from the nominal plane of face f
DistanceFromFace(m, p, f) ==
    IF f = 0 THEN Abs(m.position[2] - HalfBoxSize(p))
    ELSE IF f = 1 THEN Abs(m.position[2] + HalfBoxSize(p))
    ELSE IF f = 2 THEN Abs(m.position[1] + HalfBoxSize(p))
    ELSE Abs(m.position[1] - HalfBoxSize(p))

NearFace(m, p, f) == DistanceFromFace(m, p, f) <= HalfBoxThickness(p)

\* C7: the out-of-plane coordinate of every stored instance position is
\* within wallThickness / 2 of the plane of the face drawn for it.
C7_WithinHalfThicknessOfOwnFace ==
    \A i \in 1 .. Len(particleData.matrices) :
        NearFace(particleData.matrices[i], props, particleData.matrices[i].face)

\* C8: every instance is within wallThickness / 2 of the plane of exactly
\* one of the four faces, never of two at once.
C8_NearExactlyOneFace ==
    \A i \in 1 .. Len(particleData.matrices) :
        Cardinality({f \in 0 .. 3 :
                        NearFace(particleData.matrices[i], props, f)}) = 1

\* top and bottom are adjacent to left and right
AdjacentFaces(f, g) == (f <= 1) # (g <= 1)

\* C8, amended: every instance is within wallThickness / 2 of the plane of
\* the face drawn for it; it may be that close to a second plane too: while
\* the walls are thinner than the cross-section is wide, to at most one
\* other plane, that of an adjacent face (the instance is near a corner).
C8_NearItsOwnFacePlane ==
    \A i \in 1 .. Len(particleData.matrices) :
        LET m == particleData.matrices[i]
            near == {f \in 0 .. 3 : NearFace(m, props, f)}
        IN  /\ m.face \in near
            /\ props.boxThickness < props.boxSize =>
                   /\ Cardinality(near) <= 2
                   /\ \A f \in near \ {m.face} : AdjacentFaces(f, m.face)

\* a batch regenerated for thicker walls that holds an instance near a
\* corner: within wallThickness / 2 of the plane of its own face and of the
\* plane of an adjacent face
C8_Witness ==
    /\ props.boxThickness # DefaultProps.boxThickness
    /\ props.boxThickness < props.boxSize
    /\ \E i \in 1 .. Len(particleData.matrices) :
          LET m == particleData.matrices[i]
          IN  /\ NearFace(m, props, m.face)
              /\ Cardinality({f \in 0 .. 3 : NearFace(m, props, f)}) = 2

---------------------------------------------------------------------------
(* Further claims about the animation loop *)

\* C25: the two sections never wrap in the same frame (the z both groups
\* were given in a frame is never at or beyond the forward bound for both),
\* and their offsets are never equal.
C25_SectionsNeverCollapse ==
    /\ ~(section1Z >= ForwardBound /\ section2Z >= ForwardBound)
    /\ section1Position # section2Position

\* C26: in every frame that is rendered with both section refs attached,
\* the z each section's group is rendered at equals the section's stored
\* offset and is below the forward bound.
C26_RenderedAtStoredOffset ==
    stage = "rendered" /\ sectionRefs =>
        /\ section1Z = section1Position
        /\ section2Z = section2Position
        /\ section1Z < ForwardBound
        /\ section2Z < ForwardBound

\* the frame just begun wrapped section 1 (section 2): its group was placed
\* at or beyond the forward bound and its offset was reset
Section1Wrapped ==
    stage = "updated" /\ section1Z >= ForwardBound
        /\ section1Position = ResetPosition
Section2Wrapped ==
    stage = "updated" /\ section2Z >= ForwardBound
        /\ section2Position = ResetPosition

\* a call of the animation loop raises the offset from position to after, or
\* wraps it
RisesOrWraps(position, after) ==
    \/ after > position
    \/ after = ResetPosition /\ Advanced(position, delta') >= ForwardBound

\* C28: while frames keep arriving, each with a delta of at least 1, each
\* section wraps infinitely often, and between two wraps of a section every
\* call of the animation loop raises its offset.
C28_WrapsAgainAndAgain ==
    /\ []<>Section1Wrapped
    /\ []<>Section2Wrapped
    /\ [][stage = "idle" /\ stage' = "updated" =>
              /\ RisesOrWraps(section1Position, section1Position')
              /\ RisesOrWraps(section2Position, section2Position')]_vars

\* section 2, which starts a whole section behind, was wrapped by a frame
\* that was not stalled, section 1 being on its way up again
C28_Witness ==
    /\ Section2Wrapped
    /\ delta <= MaxDelta
    /\ section1Position > ResetPosition
    /\ section1Position < ForwardBound

---------------------------------------------------------------------------
(* Claims about the ray-cone intersector and the ray-march kernel *)

\* C9, as stated: for every shaded pixel whose ray has a >= 0 and b >= 0 the
\* ray-cone intersector returns the max-distance sentinel MAX_DIST.
C9_ReturnsSentinelWhenBothNonNegative ==
    (pixel.shaded /\ pixel.a >= 0 /\ pixel.b >= 0)
        => pixel.intersect = MAX_DIST * LenScale

\* C9, amended: for every shaded pixel whose ray has a >= 0 and b >= 0 the
\* ray-cone intersector returns 0, not the sentinel, and the kernel, which
\* marches only when the result is greater than 0, leaves the colour as it was.
C9_ReturnsZeroWhenBothNonNegative ==
    (pixel.shaded /\ pixel.a >= 0 /\ pixel.b >= 0)
        => /\ pixel.intersect = 0
           /\ ~pixel.marched
           /\ pixel.outputColor = pixel.inputColor

\* a pixel was shaded whose ray has a > 0 and b > 0 (the camera is in the
\* cone of a light of 40 degrees and looks along it), with the noise texture
\* loaded and the surface further away than MAX_DIST
C9_Witness ==
    /\ pixel.shaded
    /\ pixel.a > 0
    /\ pixel.b > 0
    /\ pixel.intersect = 0
    /\ uniforms.coneAngle = 40
    /\ uniforms.noiseTexture # NullTexture
    /\ pixel.rayLength > MAX_DIST * LenScale

\* C10: for every shaded pixel, if the intersector's result is the sentinel
\* MAX_DIST or is at least rayLength, the kernel adds nothing: the output
\* colour equals the input colour, also when rayLength exceeds MAX_DIST.
C10_NoContributionWithoutIntersection ==
    (pixel.shaded
        /\ (pixel.intersect = MAX_DIST * LenScale
               \/ pixel.intersect >= pixel.rayLength))
        => (pixel.density = 0 /\ pixel.outputColor = pixel.inputColor)

Cross(u, v) ==
    << u[2] * v[3] - u[3] * v[2], u[3] * v[1] - u[1] * v[3],
       u[1] * v[2] - u[2] * v[1] >>

\* the camera is on the axis line of the cone, behind its apex, and the
\* pixel's ray runs exactly along the axis
AxisRayFromBehindApex ==
    LET coneDir == normalize(uniforms.lightDirection)
        fromApex == Minus(uniforms.cameraPosition, uniforms.lightPosition)
    IN  /\ pixel.shaded
        /\ pixel.rayDir = coneDir
        /\ Cross(fromApex, coneDir) = <<0, 0, 0>>
        /\ Dot(fromApex, coneDir) < 0

\* C12: for every shaded pixel whose ray starts on the cone's axis line
\* outside the apex and runs exactly along the axis, with a half-angle
\* strictly between 0 and 90 degrees, the intersector returns a strictly
\* positive distance smaller than MAX_DIST.
C12_AxisRayEntersBeforeSentinel ==
    (AxisRayFromBehindApex /\ uniforms.coneAngle > 0 /\ uniforms.coneAngle < 90)
        => (pixel.intersect > 0 /\ pixel.intersect < MAX_DIST * LenScale)

\* a noise image every texel of which is 1: the noise factor of a sample is 1
NeutralNoise == <<<<UnitScale, UnitScale>>, <<UnitScale, UnitScale>>>>

\* the density the shaded pixel gets when every noise lookup gives 1
DensityWithoutTurbulence ==
    mainImage([uniforms EXCEPT !.noiseTexture = NeutralNoise],
              pixel.inputColor, pixel.depth, pixel.uv).density

\* C13: for every pixel shaded while the noise texture's uniform is still
\* null, the density is the one the pixel gets with noise factor 1 (the beam
\* without turbulence), not zero.
C13_NullNoiseIsNeutral ==
    (pixel.shaded /\ uniforms.noiseTexture = NullTexture)
        => pixel.density = DensityWithoutTurbulence

\* C14: after every frame update (the useFrame of the effect) the light cone
\* uniforms equal the current Spotlight Controls: the apex is the light's
\* position, the axis the normalized target - position, the half-angle the
\* angle.
C14_UniformsFollowSpotlight ==
    [][VolumetricUseFrame =>
           /\ uniforms'.lightPosition = spotlight'.position
           /\ uniforms'.lightDirection
                  = normalize(Minus(spotlight'.target, spotlight'.position))
           /\ uniforms'.coneAngle = spotlight'.angle]_vars

---------------------------------------------------------------------------
(* Claims about the particle generator *)

\* C15: in every render the batch is recomputed from the random source when
\* a parameter the generator reads has changed, and is otherwise unchanged,
\* no new draw being made from the random source: not by a visibility toggle
\* and not by a change of a parameter the generator does not use.
C15_RegeneratedOnlyOnGeneratorParameters ==
    [][IF DepsChanged(props, props', GeneratorParameters)
       THEN LET data == particleDataMemo(props', rngState)
            IN  /\ particleData'
                       = [matrices |-> data.matrices, colors |-> data.colors]
                /\ rngState' = data.rng
       ELSE /\ particleData' = particleData
            /\ rngState' = rngState]_vars

\* C19: every instance of the batch has one scale on all three axes; it is
\* 1 - sizeRandomness + U * 2 * sizeRandomness for a draw U in [0, 1), lies in
\* [1 - sizeRandomness, 1 + sizeRandomness) when sizeRandomness > 0, and is
\* exactly 1 when sizeRandomness = 0.
C19_ScaleWithinSizeRandomness ==
    \A i \in 1 .. Len(particleData.matrices) :
        LET scale == particleData.matrices[i].scale
            spread == props.sizeRandomness * RngModulus
        IN  /\ scale[1] = scale[2]
            /\ scale[2] = scale[3]
            /\ \E r \in 0 .. (RngModulus - 1) :
                   scale[1] = ScaleOne - spread + 2 * props.sizeRandomness * r
            /\ props.sizeRandomness > 0
                   => (ScaleOne - spread <= scale[1] /\ scale[1] < ScaleOne + spread)
            /\ props.sizeRandomness = 0 => scale[1] = ScaleOne

\* a batch regenerated after a control was moved, with sizeRandomness > 0,
\* holds two instances of different scales, one below 1 and one above
C19_Witness ==
    /\ props.boxSize # DefaultProps.boxSize
    /\ props.sizeRandomness > 0
    /\ Len(particleData.matrices) = MaxCount
    /\ particleData.matrices[1].scale[1] < ScaleOne
    /\ particleData.matrices[MaxCount].scale[1] > ScaleOne

\* what Math.random() returned for the rotation about axis k (1, 2, 3) of
\* instance i, as a number of 1 / RngModulus: the value from which the
\* draws the batch made after it lead to the present state of Math.random()
RotationDraw(i, k) ==
    CHOOSE r \in 0 .. (RngModulus - 1) :
        AfterDraws(r, (props.count - i + 1) * DrawsPerInstance(props) - (4 + k))
            = rngState

BaseRotation == <<props.baseRotationX, props.baseRotationY, props.baseRotationZ>>

RotationRandomness ==
    << props.rotationRandomnessX, props.rotationRandomnessY,
       props.rotationRandomnessZ >>

\* C20, as stated: every rotation axis of every instance is its base
\* rotation plus or minus U * 2 * rotationRandomness * pi, U being the draw
\* made for the axis (so that deviations reach 2 * rotationRandomness * pi).
C20_RotationIsPlusMinusDraw ==
    \A i \in 1 .. Len(particleData.matrices) : \A k \in 1 .. 3 :
        LET angle == particleData.matrices[i].rotation[k]
            reach == 2 * RotationRandomness[k] * RotationDraw(i, k)
        IN  angle = BaseRotation[k] + reach \/ angle = BaseRotation[k] - reach

\* C20, amended: every rotation axis of every instance is its base rotation
\* plus (U - 0.5) * 2 * rotationRandomness * pi, U being the draw made for
\* that axis alone: the deviation lies in [-rotationRandomness * pi,
\* rotationRandomness * pi) and is exactly 0 when rotationRandomness = 0.
C20_RotationIsCentredDraw ==
    \A i \in 1 .. Len(particleData.matrices) : \A k \in 1 .. 3 :
        LET deviation == particleData.matrices[i].rotation[k] - BaseRotation[k]
            reach == RotationRandomness[k] * RngModulus
        IN  /\ deviation
                   = (2 * RotationDraw(i, k) - RngModulus) * RotationRandomness[k]
            /\ -reach <= deviation
            /\ RotationRandomness[k] > 0 => deviation < reach
            /\ RotationRandomness[k] = 0 => deviation = 0

\* a batch regenerated with randomness on two axes and a base rotation on
\* the first: the first instance deviates on both axes, by different amounts
C20_Witness ==
    /\ props.rotationRandomnessX > 0
    /\ props.rotationRandomnessY > 0
    /\ props.baseRotationX > 0
    /\ Len(particleData.matrices) = MaxCount
    /\ particleData.matrices[1].rotation[1] # props.baseRotationX
    /\ particleData.matrices[1].rotation[2] # 0
    /\ particleData.matrices[1].rotation[1] - props.baseRotationX
           # particleData.matrices[1].rotation[2]

\* C27: whenever the instanced mesh is mounted, its per-instance matrices
\* and its colour attribute are those of the current generated batch,
\* whatever controls were moved and however often the mesh was hidden and
\* shown again.
C27_MountedMeshShowsBatch ==
    meshMounted =>
        /\ instanceMatrix = particleData.matrices
        /\ colorAttribute = particleData.colors

---------------------------------------------------------------------------
(* Claims about the configuration of the shaders *)

\* C16: the configuration that reaches the shaders is within range: the cone
\* half-angle, as tuned and as the ray-march shader holds it, is strictly
\* less than pi / 2 (90 degrees), and the sample count of the god rays shader
\* is a positive integer within MAX_SAMPLES, so that min(uSamples,
\* MAX_SAMPLES) is the sample count itself.
C16_ConfigurationWithinRange ==
    /\ spotlight.angle < 90
    /\ uniforms.coneAngle < 90
    /\ scatterUniforms.uSamples >= 1
    /\ scatterUniforms.uSamples <= MAX_SAMPLES
    /\ ScatterIterations(scatterUniforms) = scatterUniforms.uSamples

\* the sample count alone: always a positive integer within MAX_SAMPLES
SamplesWithinRange ==
    /\ scatterUniforms.uSamples >= 1
    /\ scatterUniforms.uSamples <= MAX_SAMPLES
    /\ ScatterIterations(scatterUniforms) = scatterUniforms.uSamples

---------------------------------------------------------------------------
(* Claims about the denominators of the ray-march shader *)

\* C17: the intersector and the march never divide by zero: no shaded pixel
\* has evaluated -b / a with a = 0, the axis weight's quotient with
\* 1 - coneCosine = 0, or the normalisation of a zero-length vector.
C17_NoZeroDenominator ==
    pixel.shaded => pixel.zeroDivisors = {}

\* the shaded pixel's ray is not parallel to the axis of the cone
RayOffAxis ==
    /\ pixel.shaded
    /\ Cross(pixel.rayDir, normalize(uniforms.lightDirection)) # <<0, 0, 0>>

C23_MarchWithinRay ==
    pixel.shaded /\ pixel.marched =>
        /\ pixel.rayLength > 0
        /\ pixel.blueNoise >= 0
        /\ pixel.blueNoise <= BlueScale
        /\ pixel.iterations <= NUM_SAMPLES
        /\ \A i \in 0 .. (pixel.iterations - 1) :
               /\ SampleT(pixel.rayLength, pixel.blueNoise, i) >= 0
               /\ SampleT(pixel.rayLength, pixel.blueNoise, i) <= pixel.rayLength
        /\ pixel.maxT <= pixel.rayLength

\* a pixel marched with the largest jitter, 1: all NUM_SAMPLES samples are
\* taken and the last is at rayLength itself
C23_Witness ==
    /\ pixel.shaded
    /\ pixel.marched
    /\ pixel.blueNoise = BlueScale
    /\ pixel.iterations = NUM_SAMPLES
    /\ pixel.maxT = pixel.rayLength

\* C24: the ray-march shader only adds light: for every shaded pixel the
\* accumulated density is not negative, every channel of the output colour
\* is the input channel plus the density and so at least the input channel,
\* and the output alpha is the input alpha.
C24_OnlyAddsLight ==
    pixel.shaded =>
        /\ pixel.density >= 0
        /\ \A channel \in 1 .. 3 :
               /\ pixel.outputColor[channel]
                      = pixel.inputColor[channel] + pixel.density
               /\ pixel.outputColor[channel] >= pixel.inputColor[channel]
        /\ pixel.outputAlpha = pixel.depth

\* a pixel of a colour other than black was marched through the cone, both
\* textures loaded, and light was added to it
C24_Witness ==
    /\ pixel.shaded
    /\ pixel.marched
    /\ uniforms.noiseTexture # NullTexture
    /\ uniforms.blueNoiseTexture # NullTexture
    /\ pixel.inputColor # <<0, 0, 0>>
    /\ pixel.density > 0
    /\ pixel.outputColor[1] > pixel.inputColor[1]

\* the step changes nothing of the uniforms but the named sampler, which
\* goes from no texture to one of the generated images
BindsOnly(sampler) ==
    /\ uniforms[sampler] = NullTexture
    /\ uniforms'[sampler] \in NoiseImages
    /\ uniforms' = [uniforms EXCEPT ![sampler] = uniforms'[sampler]]

\* C29: each noise texture uniform is null until its own onload fires and
\* keeps the texture of its own image from then on: a step that changes
\* blueNoiseTexture or noiseTexture changes it from null to an image and
\* changes no other uniform, whatever frame updates come in between; and a
\* pixel shaded while a sampler is still null reads 0 from it.
C29_EachOnloadBindsItsOwnTexture ==
    [][/\ uniforms'.blueNoiseTexture # uniforms.blueNoiseTexture
              => BindsOnly("blueNoiseTexture")
       /\ uniforms'.noiseTexture # uniforms.noiseTexture
              => BindsOnly("noiseTexture")
       /\ (pixel'.shaded /\ uniforms'.blueNoiseTexture = NullTexture)
              => pixel'.blueNoise = 0
       /\ (pixel'.shaded /\ uniforms'.noiseTexture = NullTexture)
              => pixel'.density = 0]_vars

\* the blue noise image has loaded, the other has not, a frame update has
\* run in between, and a pixel of that frame marched through the cone
C29_Witness ==
    /\ uniforms.blueNoiseTexture # NullTexture
    /\ uniforms.noiseTexture = NullTexture
    /\ uniforms.uFrame > 0
    /\ pixel.shaded
    /\ pixel.marched
    /\ pixel.blueNoise > 0

---------------------------------------------------------------------------
(* Claims about the god rays shader *)

\* start * decay^k, each product rounded as the shader's multiplication is
RECURSIVE DecayFrom(_, _, _)
DecayFrom(start, decay, k) ==
    IF k = 0 THEN start
    ELSE Quotient(DecayFrom(start, decay, k - 1) * decay, 100)

\* the illuminationDecay is followed in blocks of BlockSize iterations
BlockSize == MAX_SAMPLES \div 12

\* decay^0, decay^BlockSize, .. , decay^(b * BlockSize), in units of
\* 1 / DecayScale
RECURSIVE BlockPowers(_, _)
BlockPowers(decay, b) ==
    IF b = 0 THEN <<DecayScale>>
    ELSE LET before == BlockPowers(decay, b - 1)
         IN  Append(before, DecayFrom(before[Len(before)], decay, BlockSize))

\* decay^i in units of 1 / DecayScale, from the powers at the blocks' starts
DecayPower(powers, decay, i) ==
    DecayFrom(powers[1 + i \div BlockSize], decay, i % BlockSize)

\* the step of the claim, (pixel - light) * density / n for the configured
\* sample count n
StepTowardLight(u, uv) ==
    [ k \in 1 .. 2 |->
        Quotient(((uv[k] - u.lightPosition[k]) * (TexScale \div 2)) * u.fDensity,
                 100 * u.uSamples) ]

\* where tap i is taken: i + 1 steps from the pixel toward the light
TapCoord(step, uv, i) ==
    << uv[1] * (TexScale \div 2) - (i + 1) * step[1],
       uv[2] * (TexScale \div 2) - (i + 1) * step[2] >>

\* weight * decay^i * sample_i
WeightedTap(u, tInput, uv, step, powers, i) ==
    Quotient(Quotient(CurrentSample(u, tInput, TapCoord(step, uv, i))
                          * DecayPower(powers, u.fDecay, i), UnitScale)
                 * u.fWeight,
             100)

\* the sum of the weighted taps from .. to, from <= to
RECURSIVE TapSum(_, _, _, _, _, _, _)
TapSum(u, tInput, uv, step, powers, from, to) ==
    IF from = to THEN WeightedTap(u, tInput, uv, step, powers, from)
    ELSE LET mid == (from + to) \div 2
         IN  TapSum(u, tInput, uv, step, powers, from, mid)
                 + TapSum(u, tInput, uv, step, powers, mid + 1, to)

\* exposure times the sum of the n weighted taps
ScatterSum(u, tInput, uv) ==
    Quotient(TapSum(u, tInput, uv, StepTowardLight(u, uv),
                    BlockPowers(u.fDecay, (u.uSamples - 1) \div BlockSize),
                    0, u.uSamples - 1),
             100) * u.fExposure

\* C21: when the god rays shader has finished a pixel, it has taken n taps,
\* n the configured sample count; its output is exposure times the sum over
\* i = 0 .. n - 1 of weight * decay^i * sample_i, the taps at equal steps of
\* (pixel - light) * density / n from the pixel toward the light; and the
\* last tap is at density * (pixel - light) from the pixel (up to the
\* rounding of the n steps).
C21_OutputIsWeightedSum ==
    scatterPixel.stage = "done" =>
        LET u == scatterUniforms
            uv == scatterPixel.uv
            n == u.uSamples
        IN  /\ scatterPixel.i = n
            /\ scatterPixel.outputColor = ScatterSum(u, scatterPixel.tInput, uv)
            /\ scatterPixel.texCoord
                   = TapCoord(StepTowardLight(u, uv), uv, n - 1)
            /\ \A k \in 1 .. 2 :
                   Abs((uv[k] * (TexScale \div 2) - scatterPixel.texCoord[k])
                           - Quotient(((uv[k] - u.lightPosition[k])
                                          * (TexScale \div 2)) * u.fDensity,
                                      100)) <= n

\* a pixel away from the light finished over a buffer that is not uniform,
\* with the controls' 120 samples, a decay of 0.9 and a density that takes
\* the taps beyond the light: its output is positive
C21_Witness ==
    /\ scatterPixel.stage = "done"
    /\ scatterPixel.i = MAX_SAMPLES
    /\ scatterUniforms.fDecay = 90
    /\ scatterUniforms.fDensity = 200
    /\ scatterPixel.uv # scatterUniforms.lightPosition
    /\ scatterPixel.tInput = <<<<UnitScale, 0>>, <<250, 600>>>>
    /\ scatterPixel.outputColor > 0

\* the decays and the weights the uniforms of the god rays effect can hold
DecayValues == ShaderControlValues.decay \cup {ScatterConstructorUniforms.fDecay}
WeightValues ==
    ShaderControlValues.weight \cup {ScatterConstructorUniforms.fWeight}

\* C22: for a fixed pixel, light position and buffer of non-negative
\* samples, the output of the god rays shader does not decrease as the decay
\* grows within 0 .. 1, nor as the weight grows within 0 .. 1: the output of
\* a finished pixel is at most the output for the same pixel with any larger
\* decay, and with any larger weight.
C22_MonotoneInDecayAndWeight ==
    scatterPixel.stage = "done" =>
        LET u == scatterUniforms
        IN  /\ \A decay \in {d \in DecayValues : d >= u.fDecay} :
                   scatterPixel.outputColor
                       <= ScatterSum([u EXCEPT !.fDecay = decay],
                                     scatterPixel.tInput, scatterPixel.uv)
            /\ \A weight \in {w \in WeightValues : w >= u.fWeight} :
                   scatterPixel.outputColor
                       <= ScatterSum([u EXCEPT !.fWeight = weight],
                                     scatterPixel.tInput, scatterPixel.uv)

\* a finished pixel whose output is positive and strictly below the output
\* for a larger decay, and strictly below the output for a larger weight
C22_Witness ==
    /\ scatterPixel.stage = "done"
    /\ scatterPixel.outputColor > 0
    /\ scatterUniforms.fDecay = 90
    /\ scatterUniforms.fWeight = 20
    /\ scatterPixel.outputColor
           < ScatterSum([scatterUniforms EXCEPT !.fDecay = 100],
                        scatterPixel.tInput, scatterPixel.uv)
    /\ scatterPixel.outputColor
           < ScatterSum([scatterUniforms EXCEPT !.fWeight = 100],
                        scatterPixel.tInput, scatterPixel.uv)


=============================================================================
